---- MODULE Spec2Model ----
(***************************************************************************)
(* A model of the Huffman text compressor of src/src/lib.rs: the frequency *)
(* counter, the tree builder, the code table codec, the bit stream encoder *)
(* and the bit stream decoder.                                             *)
(*                                                                         *)
(* Characters are their code points, bytes are 0..255, a bit is 0 or 1 and *)
(* a BitVec is a sequence of bits, index 1 being the bit pushed first.     *)
(***************************************************************************)
EXTENDS Integers, Sequences, FiniteSets, TLC

VARIABLES
    pc,          \* position of the running entry point
    text,        \* encode's source r, as characters
    freq,        \* count_chars: frequencies / char_count
    heap,        \* char_count_to_huffman_encoding: huffman_heap
    popped,      \* the last <<node1, node2, combined>> of the merge loop
    encoding,    \* the code table, character -> BitVec
    wire,        \* encode's sink out, as bytes
    lineNo,      \* encode: number of lines of r already encoded
    buffer,      \* encode: buffer
    src,         \* decode's source r, as bytes
    pos,         \* decode: number of bytes of r already read
    line,        \* build_decoding_table: line
    table,       \* build_decoding_table: huffman_encoding, BitVec -> character
    hdr_end,     \* bytes of r read when build_decoding_table returned, else -1
    bit_buffer,  \* decode: bit_buffer
    to_encode,   \* decode: to_encode
    out,         \* decode's sink out, as bytes
    result       \* what the entry point returned

vars == <<pc, text, freq, heap, popped, encoding, wire, lineNo, buffer,
          src, pos, line, table, hdr_end, bit_buffer, to_encode, out, result>>

---------------------------------------------------------------------------
(* Bounds of the model.                                                    *)

\* longest text handed to encode
MaxLen == 5
\* largest count of a frequency table handed to the tree builder
MaxCount == 2
\* most entries of a code table handed to the code table codec
MaxEntries == 2
\* longest code of such a table
MaxCodeLen == 2
\* most bytes of a body that follow such a table
MaxTail == 1
\* longest short source handed to decode
MaxSrcLen == 4
\* most bytes of a body handed to decode after a header
MaxBodyLen == 5

---------------------------------------------------------------------------
(* Program constants.                                                      *)

\* '\n', the line terminator
NL == 10
\* '\r', which lines() strips before a '\n'
CR == 13
\* b'0' and b'1', the digits of a code in the header
Digit0 == 48
Digit1 == 49
\* the bit width of Count (u32): Count::min_value().count_zeros()
CountBits == 32

\* the characters texts and tables are made of: '\n', '1', 'a', 'b', U+00E9
Alphabet == {NL, 49, 97, 98, 233}

\* the characters of the texts handed to encode: '\n', 'a', 'b', U+00E9
TextAlphabet == {NL, 97, 98, 233}

Bit == {0, 1}

\* what an entry point returned: Ok(()), or an Err of some kind; a
\* HuffmanEncodingError carries its bitpattern
Running == [kind |-> "Running", bitpattern |-> <<>>]
Ok == [kind |-> "Ok", bitpattern |-> <<>>]
InvalidData == [kind |-> "InvalidData", bitpattern |-> <<>>]
HuffmanEncodingError(bitpattern) ==
    [kind |-> "HuffmanEncodingError", bitpattern |-> bitpattern]

\* sequences over S of length at most n
RECURSIVE SeqsUpTo(_, _)
SeqsUpTo(S, n) ==
    IF n = 0 THEN {<<>>}
    ELSE LET shorter == SeqsUpTo(S, n - 1)
         IN  shorter \cup {Append(s, x) : s \in {t \in shorter : Len(t) = n - 1}, x \in S}

Range(s) == {s[i] : i \in 1..Len(s)}

\* no function at all: the value of a variable its entry point does not use
EmptyMap == [x \in {} |-> 0]

---------------------------------------------------------------------------
(* HuffmanNode and combine.                                                *)

Leaf(count, ch) == [kind |-> "Leaf", count |-> count, ch |-> ch, code |-> EmptyMap]
Interior(count, code) == [kind |-> "Interior", count |-> count, ch |-> 0, code |-> code]

\* lcount + rcount on Count (u32); the counts of the model stay far below
\* 2^32, where + neither wraps nor panics
AddCount(a, b) == a + b

\* a slip: the bit pushed at the end of the code
InsertBack(code, bit) == code \o <<bit>>

\* BitVec::insert(0, bit)
InsertFront(code, bit) == <<bit>> \o code

\* for (_, code) in map.iter_mut() { code.insert(0, bit) }
PrependAll(map, bit) == [c \in DOMAIN map |-> InsertFront(map[c], bit)]

\* HashMap::insert(ch, code): overwrites
MapInsert(map, ch, code) ==
    [c \in DOMAIN map \cup {ch} |-> IF c = ch THEN code ELSE map[c]]

\* HashMap::extend(other): other's entries win
MapExtend(map, other) ==
    [c \in DOMAIN map \cup DOMAIN other |-> IF c \in DOMAIN other THEN other[c] ELSE map[c]]

\* the (Leaf, Leaf) arm
CombineLeafLeaf(left, right) ==
    Interior(AddCount(left.count, right.count),
             MapInsert(MapInsert(EmptyMap, left.ch, <<0>>), right.ch, <<1>>))

\* a slip: the Interior's codes get false, as if the Interior were on the left
CombineLeafInteriorFalse(left, right) ==
    Interior(AddCount(left.count, right.count),
             MapInsert(PrependAll(right.code, 0), left.ch, <<1>>))

\* the (Leaf, Interior) arm
CombineLeafInterior(left, right) ==
    Interior(AddCount(left.count, right.count),
             MapInsert(PrependAll(right.code, 1), left.ch, <<0>>))

\* a slip: the Leaf on the right gets the bit of the left side
CombineInteriorLeafZero(left, right) ==
    Interior(AddCount(left.count, right.count),
             MapInsert(PrependAll(left.code, 0), right.ch, <<0>>))

\* the (Interior, Leaf) arm
CombineInteriorLeaf(left, right) ==
    Interior(AddCount(left.count, right.count),
             MapInsert(PrependAll(left.code, 0), right.ch, <<1>>))

\* the (Interior, Interior) arm
CombineInteriorInterior(left, right) ==
    Interior(AddCount(left.count, right.count),
             MapExtend(PrependAll(left.code, 0), PrependAll(right.code, 1)))

combine(left, right) ==
    CASE left.kind = "Leaf" /\ right.kind = "Leaf" -> CombineLeafLeaf(left, right)
      [] left.kind = "Leaf" /\ right.kind = "Interior" -> CombineLeafInterior(left, right)
      [] left.kind = "Interior" /\ right.kind = "Leaf" -> CombineInteriorLeaf(left, right)
      [] left.kind = "Interior" /\ right.kind = "Interior" ->
            CombineInteriorInterior(left, right)

\* a slip: the heap without Reverse, which surfaces a node of greatest count
MaxNodes(h) == {n \in h : \A m \in h : n.count >= m.count}

\* Ord for HuffmanNode compares the counts only; BinaryHeap<Reverse<_>>::pop
\* surfaces a node of least count, and which one among equals is not fixed
MinNodes(h) == {n \in h : \A m \in h : n.count <= m.count}

---------------------------------------------------------------------------
(* char_count_to_huffman_encoding, one step per loop iteration.            *)

SeedHeap ==
    /\ pc = "seed"
    /\ heap' = {Leaf(freq[c], c) : c \in DOMAIN freq}
    /\ pc' = "merge"
    /\ UNCHANGED <<text, freq, popped, encoding, wire, lineNo, buffer,
                   src, pos, line, table, hdr_end,
                   bit_buffer, to_encode, out, result>>

Merge ==
    /\ pc = "merge"
    /\ Cardinality(heap) > 1
    /\ \E node1 \in MinNodes(heap) :
         \E node2 \in MinNodes(heap \ {node1}) :
            /\ heap' = (heap \ {node1, node2}) \cup {combine(node1, node2)}
            /\ popped' = <<node1, node2, combine(node1, node2)>>
    /\ UNCHANGED <<pc, text, freq, encoding, wire, lineNo, buffer,
                   src, pos, line, table, hdr_end,
                   bit_buffer, to_encode, out, result>>

\* the code map of the last node of the heap
FinalEncoding(node) ==
    IF node.kind = "Interior" THEN node.code
    ELSE MapInsert(EmptyMap, node.ch, <<>>)

FinishBuild ==
    /\ pc = "merge"
    /\ Cardinality(heap) = 1
    /\ \E node \in heap :
         /\ encoding' = FinalEncoding(node)
         /\ heap' = {}
    /\ pc' = "header"
    /\ UNCHANGED <<text, freq, popped, wire, lineNo, buffer,
                   src, pos, line, table, hdr_end, bit_buffer, to_encode, out, result>>

---------------------------------------------------------------------------
(* The tree builder called on a frequency table of its own; at "header"    *)
(* it has returned the code table.                                         *)

FreqTables ==
    UNION {[S -> 0..MaxCount] : S \in (SUBSET Alphabet) \ {{}}}

InitBuild ==
    /\ pc = "seed"
    /\ text = <<>>
    /\ freq \in FreqTables
    /\ heap = {}
    /\ popped = <<>>
    /\ encoding = EmptyMap
    /\ wire = <<>>
    /\ lineNo = 0
    /\ buffer = <<>>
    /\ src = <<>>
    /\ pos = 0
    /\ line = <<>>
    /\ table = EmptyMap
    /\ hdr_end = -1
    /\ bit_buffer = <<>>
    /\ to_encode = <<>>
    /\ out = <<>>
    /\ result = Running

NextBuild == SeedHeap \/ Merge \/ FinishBuild

SpecBuild == InitBuild /\ [][NextBuild]_vars

\* p is a prefix of q, or equal to it
IsPrefix(p, q) == Len(p) <= Len(q) /\ SubSeq(q, 1, Len(p)) = p

\* the characters beneath a node, and the code each has within it
NodeChars(node) == IF node.kind = "Leaf" THEN {node.ch} ELSE DOMAIN node.code
NodeCode(node, c) == IF node.kind = "Leaf" THEN <<>> ELSE node.code[c]

\* C3: for a frequency table of two or more symbols, whatever the order in
\* which equal counts were popped, the returned table has one code for each
\* character of the table and no code is a prefix of, or equal to, another.
C3_PrefixFree ==
    (pc = "header" /\ Cardinality(DOMAIN freq) >= 2) =>
        /\ DOMAIN encoding = DOMAIN freq
        /\ \A c \in DOMAIN encoding : \A d \in DOMAIN encoding :
              c # d => ~IsPrefix(encoding[c], encoding[d])

\* a table of four symbols of equal count (every pop a tie) has been built
C3_Witness ==
    /\ pc = "header"
    /\ Cardinality(DOMAIN freq) = 4
    /\ \A c \in DOMAIN freq : freq[c] = 1
    /\ \A c \in DOMAIN encoding : Len(encoding[c]) = 2

\* C9: whatever the shapes of the two nodes, combine puts bit 0 before every
\* code of the first-popped node and bit 1 before every code of the
\* second-popped node, keeps the rest of each code, and sums the counts; the
\* first bit of a code of the final table tells the side of the last merge.
C9_MergeBits ==
    popped # <<>> =>
        LET left == popped[1]
            right == popped[2]
            merged == popped[3]
        IN  /\ merged.kind = "Interior"
            /\ DOMAIN merged.code = NodeChars(left) \cup NodeChars(right)
            /\ \A c \in NodeChars(left) : merged.code[c] = <<0>> \o NodeCode(left, c)
            /\ \A c \in NodeChars(right) : merged.code[c] = <<1>> \o NodeCode(right, c)
            /\ merged.count = left.count + right.count
            /\ pc = "merge" => merged \in heap
            /\ pc = "header" =>
                  /\ encoding = merged.code
                  /\ \A c \in DOMAIN encoding :
                        encoding[c][1] = (IF c \in NodeChars(left) THEN 0 ELSE 1)

\* all four shapes: two Interior nodes have been merged into the final table,
\* each of them made of two Leaves
C9_Witness ==
    /\ pc = "header"
    /\ popped # <<>>
    /\ popped[1].kind = "Interior"
    /\ popped[2].kind = "Interior"
    /\ Cardinality(DOMAIN encoding) = 4

\* a merge of exactly one Leaf with one Interior node
LeafWithInterior ==
    /\ popped # <<>>
    /\ {popped[1].kind, popped[2].kind} = {"Leaf", "Interior"}

\* C10 as stated: the Interior's codes get bit 0 if the Leaf was popped first
\* and bit 1 otherwise, and the Leaf's character gets the opposite bit.
C10_AsStated ==
    LeafWithInterior =>
        LET leafFirst == popped[1].kind = "Leaf"
            leaf == IF leafFirst THEN popped[1] ELSE popped[2]
            interior == IF leafFirst THEN popped[2] ELSE popped[1]
            bit == IF leafFirst THEN 0 ELSE 1
        IN  /\ \A c \in DOMAIN interior.code :
                  popped[3].code[c] = <<bit>> \o interior.code[c]
            /\ popped[3].code[leaf.ch] = <<1 - bit>>

\* C10, amended: the Interior's codes get bit 1 if the Leaf was popped first
\* and bit 0 otherwise, and the Leaf's character gets a one-bit code of the
\* opposite value (0 if the Leaf was popped first, 1 otherwise).
C10_LeafInterior ==
    LeafWithInterior =>
        LET leafFirst == popped[1].kind = "Leaf"
            leaf == IF leafFirst THEN popped[1] ELSE popped[2]
            interior == IF leafFirst THEN popped[2] ELSE popped[1]
            bit == IF leafFirst THEN 1 ELSE 0
        IN  /\ \A c \in DOMAIN interior.code :
                  popped[3].code[c] = <<bit>> \o interior.code[c]
            /\ popped[3].code[leaf.ch] = <<1 - bit>>
            /\ DOMAIN popped[3].code = DOMAIN interior.code \cup {leaf.ch}

\* a Leaf popped first has been merged with an Interior node popped second
C10_Witness ==
    /\ LeafWithInterior
    /\ popped[1].kind = "Leaf"
    /\ Cardinality(DOMAIN popped[3].code) = 3

---------------------------------------------------------------------------
(* count_chars.                                                            *)

\* the index of the first x in s at or after i, or 0
RECURSIVE IndexFrom(_, _, _)
IndexFrom(s, x, i) ==
    IF i > Len(s) THEN 0
    ELSE IF s[i] = x THEN i
    ELSE IndexFrom(s, x, i + 1)

\* a line as lines() yields it: without its '\n', and without the '\r' before it
StripCR(l) ==
    IF Len(l) > 0 /\ l[Len(l)] = CR THEN SubSeq(l, 1, Len(l) - 1) ELSE l

\* BufRead::lines(): the lines of t; a last line without '\n' is a line (and
\* keeps a '\r' at its end), an empty rest is none
RECURSIVE Lines(_)
Lines(t) ==
    IF t = <<>> THEN <<>>
    ELSE LET i == IndexFrom(t, NL, 1)
         IN  IF i = 0 THEN <<t>>
             ELSE <<StripCR(SubSeq(t, 1, i - 1))>> \o Lines(SubSeq(t, i + 1, Len(t)))

\* the number of i with s[i] = x
Occurrences(s, x) == Cardinality({i \in 1..Len(s) : s[i] = x})

RECURSIVE Concat(_)
Concat(ss) == IF ss = <<>> THEN <<>> ELSE Head(ss) \o Concat(Tail(ss))

\* a slip-free counter: the number of lines, not the last line_number
NumLinesCounted(lines) == Len(lines)

\* num_lines after the loop: the line_number of the last line, 0 with no line
NumLines(lines) == IF Len(lines) = 0 THEN 0 ELSE Len(lines) - 1

\* frequencies after the loop over the lines
CharCounts(lines) ==
    LET all == Concat(lines)
    IN  [c \in Range(all) |-> Occurrences(all, c)]

count_chars(t) == MapInsert(CharCounts(Lines(t)), NL, NumLines(Lines(t)))

---------------------------------------------------------------------------
(* serialize_huffman_encoding.                                             *)

\* char::encode_utf8, for the characters below U+0800
EncodeUtf8(ch) ==
    IF ch < 128 THEN <<ch>>
    ELSE <<192 + (ch \div 64), 128 + (ch % 64)>>

\* the bytes of a text
RECURSIVE Utf8Text(_)
Utf8Text(t) == IF t = <<>> THEN <<>> ELSE EncodeUtf8(Head(t)) \o Utf8Text(Tail(t))

\* if bit { b'1' } else { b'0' }
DigitOf(bit) == IF bit = 1 THEN Digit1 ELSE Digit0

Digits(code) == [i \in 1..Len(code) |-> DigitOf(code[i])]

\* one header line: the character, its code as digits, '\n'
HeaderLine(ch, code) == EncodeUtf8(ch) \o Digits(code) \o <<NL>>

Min(S) == CHOOSE x \in S : \A y \in S : x <= y

\* the lines of the characters S of enc, sorted by character
RECURSIVE SerializeSorted(_, _)
SerializeSorted(enc, S) ==
    IF S = {} THEN <<>>
    ELSE LET ch == Min(S)
         IN  HeaderLine(ch, enc[ch]) \o SerializeSorted(enc, S \ {ch})

serialize_huffman_encoding(enc) == SerializeSorted(enc, DOMAIN enc)

---------------------------------------------------------------------------
(* encode: count_chars, the tree builder (above), the header, then one      *)
(* step per line of the second pass and one per flush.                     *)

CountChars ==
    /\ pc = "count"
    /\ freq' = count_chars(text)
    /\ pc' = "seed"
    /\ UNCHANGED <<text, heap, popped, encoding, wire, lineNo, buffer,
                   src, pos, line, table, hdr_end,
                   bit_buffer, to_encode, out, result>>

\* out.write_all(&serialized_encoding); out.write_all(b"\n\n"); r.seek(0);
\* buffer = encoding!()
WriteHeader ==
    /\ pc = "header"
    /\ wire' = serialize_huffman_encoding(encoding) \o <<NL, NL>>
    /\ lineNo' = 0
    /\ buffer' = <<>>
    /\ pc' = "encode"
    /\ UNCHANGED <<text, freq, heap, popped, encoding,
                   src, pos, line, table, hdr_end,
                   bit_buffer, to_encode, out, result>>

\* the codes of the characters of a line, one after the other
RECURSIVE LineCodes(_, _)
LineCodes(enc, l) ==
    IF l = <<>> THEN <<>> ELSE enc[Head(l)] \o LineCodes(enc, Tail(l))

\* the body of the loop over the lines, up to the test of the flush
EncodeLine ==
    /\ pc = "encode"
    /\ lineNo < Len(Lines(text))
    /\ buffer' = buffer \o LineCodes(encoding, Lines(text)[lineNo + 1]) \o encoding[NL]
    /\ lineNo' = lineNo + 1
    /\ pc' = "flush"
    /\ UNCHANGED <<text, freq, heap, popped, encoding, wire,
                   src, pos, line, table, hdr_end,
                   bit_buffer, to_encode, out, result>>

\* the byte of up to 8 bits under the LittleEndian cursor: the first bit is
\* the lowest, the bits that are not there are 0
RECURSIVE PackByte(_)
PackByte(bits) ==
    IF bits = <<>> THEN 0 ELSE Head(bits) + 2 * PackByte(Tail(bits))

\* the bytes of a BitVec<LittleEndian, u8>: into_boxed_slice, Into<Vec<u8>>
RECURSIVE PackBytes(_)
PackBytes(bits) ==
    IF bits = <<>> THEN <<>>
    ELSE IF Len(bits) <= 8 THEN <<PackByte(bits)>>
    ELSE <<PackByte(SubSeq(bits, 1, 8))>> \o PackBytes(SubSeq(bits, 9, Len(bits)))

\* a slip: the whole buffer written, its incomplete byte too
SplitIndexWhole(len) == len

\* buffer.len() - buffer.len() % 8
SplitIndex(len) == len - (len % 8)

\* a slip: the flush only past two bytes
ShouldFlushLate(len) == len > 16

\* buffer.len() > 8
ShouldFlush(len) == len > 8

Flush ==
    /\ pc = "flush"
    /\ IF ShouldFlush(Len(buffer))
       THEN /\ wire' = wire \o PackBytes(SubSeq(buffer, 1, SplitIndex(Len(buffer))))
            /\ buffer' = SubSeq(buffer, SplitIndex(Len(buffer)) + 1, Len(buffer))
       ELSE UNCHANGED <<wire, buffer>>
    /\ pc' = "encode"
    /\ UNCHANGED <<text, freq, heap, popped, encoding, lineNo,
                   src, pos, line, table, hdr_end,
                   bit_buffer, to_encode, out, result>>

\* after the last line: the rest of the buffer is written and encode returns;
\* decode is then run on the bytes written
EncodeFinish ==
    /\ pc = "encode"
    /\ lineNo = Len(Lines(text))
    /\ wire' = wire \o PackBytes(buffer)
    /\ src' = wire'
    /\ pos' = 0
    /\ pc' = "hdr_read"
    /\ UNCHANGED <<text, freq, heap, popped, encoding, lineNo, buffer,
                   line, table, hdr_end, bit_buffer, to_encode, out, result>>

---------------------------------------------------------------------------
(* build_decoding_table, two steps per iteration of its loop: the read of  *)
(* a line, and the entry made of it.                                       *)

\* the bytes of a string are valid UTF-8; of the longer sequences only those
\* of two bytes are told apart, no line of the model holds a lead byte of a
\* sequence of three or four
RECURSIVE Utf8Valid(_)
Utf8Valid(b) ==
    IF b = <<>> THEN TRUE
    ELSE IF b[1] < 128 THEN Utf8Valid(Tail(b))
    ELSE IF b[1] \in 194..223 /\ Len(b) >= 2 /\ b[2] \in 128..191
         THEN Utf8Valid(Tail(Tail(b)))
    ELSE FALSE

\* the characters of valid UTF-8
RECURSIVE DecodeUtf8(_)
DecodeUtf8(b) ==
    IF b = <<>> THEN <<>>
    ELSE IF b[1] < 128 THEN <<b[1]>> \o DecodeUtf8(Tail(b))
    ELSE <<(b[1] - 192) * 64 + (b[2] - 128)>> \o DecodeUtf8(Tail(Tail(b)))

\* BufRead::read_line at p: the position after the next '\n', or the end
LineEnd(s, p) ==
    LET i == IndexFrom(s, NL, p + 1) IN IF i = 0 THEN Len(s) ELSE i

\* the bytes read_line reads at p, its '\n' included (none at the end of s)
RawLine(s, p) == SubSeq(s, p + 1, LineEnd(s, p))

\* String::pop: without its last character, if it has one
Pop(l) == IF l = <<>> THEN l ELSE SubSeq(l, 1, Len(l) - 1)

\* the digits of l up to its first character that is neither '0' nor '1',
\* as bits
RECURSIVE BitsOfDigits(_)
BitsOfDigits(l) ==
    IF l = <<>> THEN <<>>
    ELSE IF Head(l) = Digit0 THEN <<0>> \o BitsOfDigits(Tail(l))
    ELSE IF Head(l) = Digit1 THEN <<1>> \o BitsOfDigits(Tail(l))
    ELSE <<>>

AllDigits(l) == \A i \in 1..Len(l) : l[i] \in {Digit0, Digit1}

\* r.read_line(&mut line)?; line.pop();
HdrReadLine ==
    /\ pc = "hdr_read"
    /\ pos' = LineEnd(src, pos)
    /\ IF Utf8Valid(RawLine(src, pos))
       THEN /\ line' = Pop(line \o DecodeUtf8(RawLine(src, pos)))
            /\ pc' = "hdr_entry"
            /\ UNCHANGED result
       ELSE /\ result' = InvalidData
            /\ pc' = "done"
            /\ UNCHANGED line
    /\ UNCHANGED <<text, freq, heap, popped, encoding, wire, lineNo, buffer,
                   src, table, hdr_end, bit_buffer, to_encode, out>>

\* the for over the digits and the insert: the entry ch of the digits, or the
\* error of the first character that is no digit
EntryOf(ch, digits) ==
    IF AllDigits(digits)
    THEN /\ table' = MapInsert(table, BitsOfDigits(digits), ch)
         /\ line' = <<>>
         /\ pc' = "hdr_read"
         /\ UNCHANGED result
    ELSE /\ result' = HuffmanEncodingError(BitsOfDigits(digits))
         /\ pc' = "done"
         /\ UNCHANGED <<table, line>>

\* the rest of the iteration: match chars.next() ... huffman_encoding.insert
HdrEntry ==
    /\ pc = "hdr_entry"
    /\ IF line # <<>>
       THEN /\ EntryOf(Head(line), Tail(line))
            /\ UNCHANGED <<pos, hdr_end>>
       ELSE \* an empty line: line.clear(); r.read_line(&mut line)?
            /\ pos' = LineEnd(src, pos)
            /\ IF ~Utf8Valid(RawLine(src, pos))
               THEN /\ result' = InvalidData
                    /\ pc' = "done"
                    /\ UNCHANGED <<table, line, hdr_end>>
               ELSE IF DecodeUtf8(RawLine(src, pos)) = <<NL>>
               THEN \* two empty lines: break, and Ok(huffman_encoding)
                    /\ hdr_end' = pos'
                    /\ line' = <<NL>>
                    /\ pc' = "body"
                    /\ UNCHANGED <<table, result>>
               ELSE /\ EntryOf(NL, Pop(DecodeUtf8(RawLine(src, pos))))
                    /\ UNCHANGED hdr_end
    /\ UNCHANGED <<text, freq, heap, popped, encoding, wire, lineNo, buffer,
                   src, bit_buffer, to_encode, out>>

---------------------------------------------------------------------------
(* decode after the table: one step per byte, one per bit of it.           *)

\* BitVec::from_element(byte): the lowest bit first
ByteBits(byte) == [i \in 1..8 |-> (byte \div (2 ^ (i - 1))) % 2]

\* BitSlice::reverse
Reverse(bits) == [i \in 1..Len(bits) |-> bits[Len(bits) + 1 - i]]

\* a slip: tmp appended without tmp.reverse()
UnpackedUnreversed(byte) == ByteBits(byte)

\* tmp = from_element(byte); tmp.reverse(); bit_buffer.append(&mut tmp)
Unpacked(byte) == Reverse(ByteBits(byte))

\* the head of the for over the bytes, and Ok(()) after the last
DecodeByte ==
    /\ pc = "body"
    /\ IF pos < Len(src)
       THEN /\ bit_buffer' = bit_buffer \o Unpacked(src[pos + 1])
            /\ pos' = pos + 1
            /\ pc' = "bits"
            /\ UNCHANGED result
       ELSE /\ result' = Ok
            /\ pc' = "done"
            /\ UNCHANGED <<bit_buffer, pos>>
    /\ UNCHANGED <<text, freq, heap, popped, encoding, wire, lineNo, buffer,
                   src, line, table, hdr_end, to_encode, out>>

\* a slip: the guard one bit early
TooLongAtWidth(candidate) == Len(candidate) >= CountBits

\* to_encode.len() > Count::min_value().count_zeros()
TooLong(candidate) == Len(candidate) > CountBits

\* one iteration of while let Some(bit) = bit_buffer.pop()
DecodeBit ==
    /\ pc = "bits"
    /\ bit_buffer # <<>>
    /\ LET bit == bit_buffer[Len(bit_buffer)]
           candidate == Append(to_encode, bit)
       IN  /\ bit_buffer' = Pop(bit_buffer)
           /\ IF TooLong(candidate)
              THEN /\ result' = HuffmanEncodingError(candidate)
                   /\ to_encode' = candidate
                   /\ pc' = "done"
                   /\ UNCHANGED out
              ELSE /\ IF candidate \in DOMAIN table
                      THEN /\ out' = out \o EncodeUtf8(table[candidate])
                           /\ to_encode' = <<>>
                      ELSE /\ to_encode' = candidate
                           /\ UNCHANGED out
                   /\ pc' = IF bit_buffer' = <<>> THEN "body" ELSE "bits"
                   /\ UNCHANGED result
    /\ UNCHANGED <<text, freq, heap, popped, encoding, wire, lineNo, buffer,
                   src, pos, line, table, hdr_end>>

---------------------------------------------------------------------------
(* encode on a text, then decode on the bytes encode wrote.                *)

Init ==
    /\ pc = "count"
    /\ text \in SeqsUpTo(TextAlphabet, MaxLen)
    /\ freq = EmptyMap
    /\ heap = {}
    /\ popped = <<>>
    /\ encoding = EmptyMap
    /\ wire = <<>>
    /\ lineNo = 0
    /\ buffer = <<>>
    /\ src = <<>>
    /\ pos = 0
    /\ line = <<>>
    /\ table = EmptyMap
    /\ hdr_end = -1
    /\ bit_buffer = <<>>
    /\ to_encode = <<>>
    /\ out = <<>>
    /\ result = Running

Next ==
    \/ CountChars
    \/ SeedHeap
    \/ Merge
    \/ FinishBuild
    \/ WriteHeader
    \/ EncodeLine
    \/ Flush
    \/ EncodeFinish
    \/ HdrReadLine
    \/ HdrEntry
    \/ DecodeByte
    \/ DecodeBit

Spec == Init /\ [][Next]_vars

\* C1: round trip: decode on the bytes encode wrote for a text returns
\* success and has written exactly the bytes of the text.
C1_RoundTrip ==
    pc = "done" => (result = Ok /\ out = Utf8Text(text))

\* the characters of the lines of a text
LineChars(t) == Range(Concat(Lines(t)))

\* C7: count_chars maps every character of a line to the number of times it
\* occurs, and the line terminator to the number of lines consumed.
C7_Frequencies ==
    pc # "count" =>
        /\ DOMAIN freq = LineChars(text) \cup {NL}
        /\ \A c \in LineChars(text) \ {NL} : freq[c] = Occurrences(text, c)
        /\ freq[NL] = Len(Lines(text))

\* the text "aaab"
Aaab == <<97, 97, 97, 98>>

\* C8 as stated: for "aaab" the counts are a:3, b:1, terminator:0 and the
\* table gives a and b one bit each and the terminator more than one.
C8_AsStated ==
    (text = Aaab /\ pc \notin {"count", "seed", "merge"}) =>
        /\ freq = (97 :> 3) @@ (98 :> 1) @@ (NL :> 0)
        /\ Len(encoding[97]) = 1
        /\ Len(encoding[98]) = 1
        /\ Len(encoding[NL]) > 1

\* C8, amended: for "aaab" the counts are a:3, b:1, terminator:0 and the
\* table gives a a code of one bit, and b and the terminator a code of two
\* bits each.
C8_Example ==
    (text = Aaab /\ pc \notin {"count", "seed", "merge"}) =>
        /\ freq = (97 :> 3) @@ (98 :> 1) @@ (NL :> 0)
        /\ DOMAIN encoding = {97, 98, NL}
        /\ Len(encoding[97]) = 1
        /\ Len(encoding[98]) = 2
        /\ Len(encoding[NL]) = 2

\* the table of "aaab" has been built
C8_Witness ==
    /\ text = Aaab
    /\ pc = "header"
    /\ encoding = (97 :> <<1>>) @@ (98 :> <<0, 1>>) @@ (NL :> <<0, 0>>)

---------------------------------------------------------------------------
(* The code table codec on a table of its own: the header of the table and *)
(* the end marker as encode writes them, followed by the first bytes of a  *)
(* body, then build_decoding_table; at "body" it has returned.             *)

\* the code tables of at most MaxEntries characters and of codes of at most
\* MaxCodeLen bits, no two characters sharing a code
CodeTables ==
    UNION {{t \in [S -> SeqsUpTo(Bit, MaxCodeLen)] :
               \A c \in S : \A d \in S : c # d => t[c] # t[d]} :
           S \in {X \in SUBSET Alphabet : Cardinality(X) \in 1..MaxEntries}}

\* the bytes a body may start with
TailBytes == {NL, Digit0, 255}

InitHeader ==
    /\ pc = "header"
    /\ text = <<>>
    /\ freq = EmptyMap
    /\ heap = {}
    /\ popped = <<>>
    /\ encoding \in CodeTables
    /\ wire = <<>>
    /\ lineNo = 0
    /\ buffer = <<>>
    /\ src = <<>>
    /\ pos = 0
    /\ line = <<>>
    /\ table = EmptyMap
    /\ hdr_end = -1
    /\ bit_buffer = <<>>
    /\ to_encode = <<>>
    /\ out = <<>>
    /\ result = Running

\* out.write_all(&serialized_encoding); out.write_all(b"\n\n"); then some
\* bytes of a body; build_decoding_table is then run on the bytes written
WriteTable ==
    /\ pc = "header"
    /\ \E tail \in SeqsUpTo(TailBytes, MaxTail) :
         wire' = serialize_huffman_encoding(encoding) \o <<NL, NL>> \o tail
    /\ src' = wire'
    /\ pos' = 0
    /\ pc' = "hdr_read"
    /\ UNCHANGED <<text, freq, heap, popped, encoding, lineNo, buffer,
                   line, table, hdr_end, bit_buffer, to_encode, out, result>>

NextHeader == WriteTable \/ HdrReadLine \/ HdrEntry

SpecHeader == InitHeader /\ [][NextHeader]_vars

\* the (code, character) pairs of a code table, and of a decoding table
PairsOfEncoding(enc) == {<<enc[c], c>> : c \in DOMAIN enc}
PairsOfTable(t) == {<<code, t[code]>> : code \in DOMAIN t}

\* the number of bytes of the header of a table and of its end marker
HeaderLength(enc) == Len(serialize_huffman_encoding(enc)) + 2

\* C2: header round trip: build_decoding_table returns, it returns exactly
\* the pairs of the table that was serialized, and it has read the header and
\* the end marker and no byte more or less.
C2_HeaderRoundTrip ==
    /\ pc # "done"
    /\ pc = "body" =>
          /\ PairsOfTable(table) = PairsOfEncoding(encoding)
          /\ pos = HeaderLength(encoding)

\* the same, but for the tables that give the line terminator the zero-length
\* code
C2_ButEmptyTerminator ==
    ~(NL \in DOMAIN encoding /\ encoding[NL] = <<>>) => C2_HeaderRoundTrip

---------------------------------------------------------------------------
(* decode on a byte source of its own.                                     *)

\* code tables whose headers start a source: none; a single zero-length
\* code; a code that is not complete (11 starts no code); the complete code
\* of "aaab"
DecodeTables ==
    { EmptyMap,
      (97 :> <<>>),
      (97 :> <<0>>) @@ (98 :> <<1, 0>>),
      (NL :> <<0, 0>>) @@ (97 :> <<1>>) @@ (98 :> <<0, 1>>) }

\* the bytes of the bodies that follow them
BodyBytes == {0, 254, 255}

\* the bytes of the short sources: '\n', '0', 'a' and a byte that is no UTF-8
SrcBytes == {NL, Digit0, 97, 255}

\* every short source, and every header followed by a body
DecodeSources ==
    SeqsUpTo(SrcBytes, MaxSrcLen)
    \cup {serialize_huffman_encoding(t) \o <<NL, NL>> \o body :
             t \in DecodeTables, body \in SeqsUpTo(BodyBytes, MaxBodyLen)}

InitDecode ==
    /\ pc = "hdr_read"
    /\ text = <<>>
    /\ freq = EmptyMap
    /\ heap = {}
    /\ popped = <<>>
    /\ encoding = EmptyMap
    /\ wire = <<>>
    /\ lineNo = 0
    /\ buffer = <<>>
    /\ src \in DecodeSources
    /\ pos = 0
    /\ line = <<>>
    /\ table = EmptyMap
    /\ hdr_end = -1
    /\ bit_buffer = <<>>
    /\ to_encode = <<>>
    /\ out = <<>>
    /\ result = Running

NextDecode == HdrReadLine \/ HdrEntry \/ DecodeByte \/ DecodeBit

SpecDecode == InitDecode /\ [][NextDecode]_vars

\* decode is sequential code: as long as it has a next step, it takes it
FairSpecDecode == SpecDecode /\ WF_vars(NextDecode)

\* C4: decode returns, with success or with a failure, whatever the source.
C4_DecodeReturns == <>(pc = "done")

\* once build_decoding_table has returned its table, decode returns
C4_BodyPassReturns == (hdr_end >= 0) ~> (pc = "done")

\* the bits of the bytes s[from + 1 .. to], each byte from its lowest bit
RECURSIVE BodyBits(_, _, _)
BodyBits(s, from, to) ==
    IF from >= to THEN <<>>
    ELSE ByteBits(s[from + 1]) \o BodyBits(s, from + 1, to)

\* the reading of a bit sequence against a decoding table: the characters of
\* the codes completed, the bits after the last of them, and whether these
\* grew past CountBits bits
RECURSIVE Greedy(_, _, _, _)
Greedy(tbl, bits, candidate, chars) ==
    IF bits = <<>> THEN [chars |-> chars, rest |-> candidate, runaway |-> FALSE]
    ELSE LET c == Append(candidate, Head(bits))
         IN  IF Len(c) > CountBits
             THEN [chars |-> chars, rest |-> c, runaway |-> TRUE]
             ELSE IF c \in DOMAIN tbl
             THEN Greedy(tbl, Tail(bits), <<>>, Append(chars, tbl[c]))
             ELSE Greedy(tbl, Tail(bits), c, chars)

\* the reading of the whole body of the source
BodyReading == Greedy(table, BodyBits(src, hdr_end, Len(src)), <<>>, <<>>)

\* code occurs somewhere in bits
Occurs(code, bits) ==
    \E i \in 0..(Len(bits) - Len(code)) : SubSeq(bits, i + 1, i + Len(code)) = code

NoCodeOccurs(tbl, bits) == \A code \in DOMAIN tbl : ~Occurs(code, bits)

\* C5: the candidate never holds more than CountBits + 1 bits, and when it
\* holds that many decode has returned the HuffmanEncodingError of exactly
\* these bits; the characters written are those of the codes completed before
\* them; the body pass is never stuck; and a body of more than CountBits bits
\* in which no code of the table occurs ends in the error of its first
\* CountBits + 1 bits with nothing written.
C5_Runaway ==
    hdr_end >= 0 =>
        /\ Len(to_encode) <= CountBits + 1
        /\ Len(to_encode) > CountBits =>
              (pc = "done" /\ result = HuffmanEncodingError(to_encode))
        /\ pc \in {"body", "bits"} => ENABLED (DecodeByte \/ DecodeBit)
        /\ (pc = "done" /\ BodyReading.runaway) =>
              /\ result = HuffmanEncodingError(BodyReading.rest)
              /\ out = Utf8Text(BodyReading.chars)
        /\ LET bits == BodyBits(src, hdr_end, Len(src))
           IN  (pc = "done" /\ Len(bits) > CountBits /\ NoCodeOccurs(table, bits)) =>
                  /\ result = HuffmanEncodingError(SubSeq(bits, 1, CountBits + 1))
                  /\ out = <<>>

\* a body in which no code of a table of two codes occurs has ended in the
\* error
C5_Witness ==
    /\ pc = "done"
    /\ hdr_end >= 0
    /\ Cardinality(DOMAIN table) = 2
    /\ NoCodeOccurs(table, BodyBits(src, hdr_end, Len(src)))
    /\ result.kind = "HuffmanEncodingError"
    /\ Len(result.bitpattern) = CountBits + 1

\* C6: when the body ends with bits in the candidate that matched no code and
\* the candidate never grew past the maximum, decode returns success, has
\* written the characters of the codes completed before these bits and
\* nothing else, and the candidate still holds these bits.
C6_TailDropped ==
    (pc = "done" /\ hdr_end >= 0 /\ ~BodyReading.runaway /\ BodyReading.rest # <<>>) =>
        /\ result = Ok
        /\ out = Utf8Text(BodyReading.chars)
        /\ to_encode = BodyReading.rest
        /\ \A n \in 1..Len(to_encode) : SubSeq(to_encode, 1, n) \notin DOMAIN table

\* decode has returned success after a character and seven unmatched bits
C6_Witness ==
    /\ pc = "done"
    /\ result = Ok
    /\ out = <<97>>
    /\ Len(to_encode) = 7

---------------------------------------------------------------------------
(* The bit stream of encode and of decode (under Spec).                    *)

\* the bits encode has produced after the first k lines of the text: the
\* codes of the characters of each line, then the code of the terminator
RECURSIVE ProducedBits(_)
ProducedBits(k) ==
    IF k = 0 THEN <<>>
    ELSE ProducedBits(k - 1) \o LineCodes(encoding, Lines(text)[k]) \o encoding[NL]

\* the bytes of the body encode has written so far
BodyWritten == SubSeq(wire, HeaderLength(encoding) + 1, Len(wire))

\* bit number i (from 1, the lowest) of a byte
BitAt(byte, i) == (byte \div (2 ^ (i - 1))) % 2

\* the bits of a byte sequence, each byte from its lowest bit
BitsOfBytes(bytes) == BodyBits(bytes, 0, Len(bytes))

Zeros(n) == [i \in 1..n |-> 0]

\* bytes is the packing of bits, the lowest bit of each byte first, into
\* ceil(n / 8) bytes, the bits that are not there being 0
IsPacking(bytes, bits) ==
    /\ Len(bytes) = (Len(bits) + 7) \div 8
    /\ BitsOfBytes(bytes) = bits \o Zeros(8 * Len(bytes) - Len(bits))

\* what holds of the bit stream in a state
PackingInv ==
    /\ pc \in {"encode", "flush"} =>
          \* the bits of the bytes written, then the bits of the buffer, are
          \* the bits produced, in order
          BitsOfBytes(BodyWritten) \o buffer = ProducedBits(lineNo)
    /\ (pc = "hdr_read" /\ pos = 0) =>
          \* encode has just returned: the body is the packing of all the
          \* bits, and it is what decode reads
          /\ IsPacking(BodyWritten, ProducedBits(Len(Lines(text))))
          /\ src = wire
    /\ pc = "body" => bit_buffer = <<>>
    /\ pc = "bits" =>
          \* the bits still to pop are the high bits of the byte, and pop
          \* yields the lowest of them first
          /\ Len(bit_buffer) \in 1..8
          /\ \A k \in 1..Len(bit_buffer) :
                bit_buffer[Len(bit_buffer) + 1 - k] = BitAt(src[pos], 8 - Len(bit_buffer) + k)

\* C11: the body encode writes is the packing, lowest bit first, of the whole
\* bit sequence it produced, whatever the flushes: at every point the bytes
\* written followed by the buffer are the bits produced so far, a flush
\* writes whole bytes only and keeps fewer than 8 bits, the body is not
\* touched after encode has returned, and decode pops the bits of each byte
\* from the lowest up, that is in the order of production.
C11_Packing ==
    /\ []PackingInv
    /\ [][/\ pc \notin {"header", "encode", "flush"} => (wire' = wire /\ src' = src)
          /\ (pc = "flush" /\ wire' # wire) =>
                /\ Len(buffer') < 8
                /\ (Len(wire') - Len(wire)) * 8 + Len(buffer') = Len(buffer)]_vars

\* a flush has written a byte and kept bits before another line was encoded,
\* and decode has read the body to its end
C11_Witness ==
    /\ pc = "done"
    /\ Len(Lines(text)) >= 2
    /\ Len(ProducedBits(1)) > 8
    /\ Len(ProducedBits(1)) % 8 # 0
    /\ pos = Len(src)

(* The sizes of the bit buffers of encode and of decode (under Spec). *)

\* the bits one iteration of the loop over the lines appends to the buffer
LineBits(k) == LineCodes(encoding, Lines(text)[k]) \o encoding[NL]

\* the claim as stated: no bit buffer ever holds more than a byte's worth of
\* bits (the candidate of decode: no more than the width of Count and the
\* bit that makes it too long), whatever the lines
C12_AsStated ==
    /\ Len(buffer) <= 8
    /\ Len(bit_buffer) <= 8
    /\ Len(to_encode) <= CountBits + 1

\* C12: the buffer of encode holds at most 8 bits between two lines, but
\* inside an iteration, before the flush, it holds those bits and all the
\* bits of the line and of its terminator, so its size grows with the length
\* of the line; the unpack buffer of decode holds at most 8 bits and the
\* candidate at most one bit more than the width of Count.
C12_Buffers ==
    /\ pc = "flush" =>
          /\ Len(buffer) >= Len(LineBits(lineNo))
          /\ Len(buffer) <= 8 + Len(LineBits(lineNo))
    /\ pc # "flush" => Len(buffer) <= 8
    /\ Len(bit_buffer) <= 8
    /\ Len(to_encode) <= CountBits + 1

\* a line has been appended and the buffer holds more than a byte's worth of
\* bits, the flush still to come
C12_Witness ==
    /\ pc = "flush"
    /\ Len(buffer) > 8
    /\ Len(buffer) = Len(LineBits(lineNo))

====
